---- MODULE Spec2Model ----
(***************************************************************************)
(* The caching/aggregation server: a process-wide cache in front of three  *)
(* upstream fetches, and the three queries (top users, popular posts,      *)
(* latest posts) built on it.                                              *)
(*                                                                         *)
(* One step of the model is one turn of the event loop: the arrival of an  *)
(* HTTP request or of an upstream response, followed by everything the     *)
(* handler does until it has to wait for the next upstream response.       *)
(* Date.now() is constant within a step.                                   *)
(***************************************************************************)
EXTENDS Integers, Sequences, FiniteSets, TLC

VARIABLES
    now,        \* Date.now(), in ms
    cache,      \* the `cache` object
    call,       \* per request slot: where the handler stands, and its locals
    upstream,   \* the data set the test server holds (fixed in a behaviour)
    hist,       \* history: the last successful store of each slot, and per post
                \* whether a comments list has been stored, the length of the
                \* first one, and whether a later response has overwritten it;
                \* the users requests in flight in the order of their issue,
                \* which of them are older than the request whose response
                \* the users slot holds, and whether the last store came
                \* from a request older than the one stored before
    calls       \* how many more requests may arrive (Unlimited: any number)

vars == <<now, cache, call, upstream, hist, calls>>

-----------------------------------------------------------------------------
(* Program constants *)

CACHE_TTL == 30000

TopN == 5

(* Bounds of the model *)

NumProcs == 2        \* request slots that may be in flight together
MaxCalls == 2        \* requests that arrive in a behaviour of Spec
NumUsers == 1        \* users of the small upstream data set
NumUsersSeq == 2     \* users of the large upstream data set
NumPosts == 1        \* posts of the small upstream data set
NumPostsSeq == 6     \* posts of the large upstream data set
MaxComments == 1     \* longest comments list, small data set
MaxCommentsSeq == 2  \* longest comments list, large data set
TickMs == 15000      \* the clock's step
MaxTime == 45000     \* the clock stops here
MaxCallsBurst == 3   \* requests that arrive in a behaviour of SpecBurst
NumUsersTop == 6     \* users of the data sets with more users than the top five
NumPostsTop == 8     \* posts of those data sets

Procs == 1..NumProcs
Max(a, b) == IF a > b THEN a ELSE b

\* The budget of a behaviour with no bound on its requests.
Unlimited == 0 - 1

UserIds == 1..Max(Max(NumUsers, NumUsersSeq), NumUsersTop)
PostIds == 1..Max(Max(NumPosts, NumPostsSeq), NumPostsTop)

-----------------------------------------------------------------------------
(* JavaScript values.  Every value is a record of the same shape so that   *)
(* any two can be compared.                                                *)

Null == [tag |-> "null", v |-> <<>>]
Undefined == [tag |-> "undefined", v |-> <<>>]
Arr(s) == [tag |-> "array", v |-> s]
Obj(s) == [tag |-> "object", v |-> s]
Err(kind) == [tag |-> "error", v |-> <<kind>>]
Str(s) == [tag |-> "string", v |-> <<s>>]

\* Arrays and objects are truthy, also when empty; a string is unless empty.
Truthy(x) == x.tag \in {"array", "object"} \/ (x.tag = "string" /\ x.v # <<"">>)
IsError(x) == x.tag = "error"

Min(a, b) == IF a < b THEN a ELSE b

\* s.slice(0, n)
Slice(s, n) == SubSeq(s, 1, Min(n, Len(s)))

\* The rank of index i under a sort that reverses equal keys.
SortRankUnstable(k, i) ==
    1 + Cardinality({j \in DOMAIN k : k[j] > k[i] \/ (k[j] = k[i] /\ j > i)})

\* The rank Array.prototype.sort gives index i under the comparator
\* (a, b) => b.k - a.k: larger keys first, equal keys in their input order.
SortRank(k, i) ==
    1 + Cardinality({j \in DOMAIN k : k[j] > k[i] \/ (k[j] = k[i] /\ j < i)})

\* s sorted by the keys k (k[i] is the key of s[i]), descending and stable.
SortDesc(s, k) ==
    [r \in 1..Len(s) |-> s[CHOOSE i \in 1..Len(s) : SortRank(k, i) = r]]

\* The keys of a set of integers in ascending order.
RECURSIVE Ascending(_)
Ascending(S) ==
    IF S = {} THEN <<>>
    ELSE LET m == CHOOSE x \in S : \A y \in S : x <= y
         IN  <<m>> \o Ascending(S \ {m})

-----------------------------------------------------------------------------
(* The upstream test server *)

\* The display name of user u.
NameOf(u) == <<"name", u>>

\* GET /users: {users: {id: name, ...}}, the entries in the order they are listed.
UsersObject(listing) ==
    Obj([i \in 1..Len(listing) |-> [id |-> listing[i], name |-> NameOf(listing[i])]])

\* Of k users, post i belongs to user ((i - 1) mod k) + 1.
OwnerOf(i, k) == ((i - 1) % k) + 1

\* GET /users/u/posts: the posts of u among posts 1..n, by ascending identifier.
PostsOf(u, n, k) ==
    LET ids == Ascending({i \in 1..n : OwnerOf(i, k) = u})
    IN  [j \in 1..Len(ids) |-> [id |-> ids[j], userid |-> u]]

\* GET /posts/p/comments with n comments.
CommentsOf(p, n) == [j \in 1..n |-> [id |-> j, postid |-> p]]

\* A data set: the listing of the users, how many posts there are, a bound on
\* the length of a comments list, and whether every body the server sends has
\* its field.  The posts are dealt to the users from user 1 on; `shift` moves
\* the deal round the users.
World(listing, n, c, wellFormed) ==
    [users |-> listing, nposts |-> n, maxComments |-> c, wellFormed |-> wellFormed,
     shift |-> 0]

\* GET /users/u/posts on the data set w.
UserPostsBody(w, u) ==
    LET k == Len(w.users)
        dealt == PostsOf(((u - 1 + w.shift) % k) + 1, w.nposts, k)
    IN  [j \in 1..Len(dealt) |-> [id |-> dealt[j].id, userid |-> u]]

\* The users listed by descending identifier.
Descending(S) == [i \in 1..Cardinality(S) |-> Ascending(S)[Cardinality(S) + 1 - i]]

SmallWorlds == {World(Descending(1..NumUsers), NumPosts, MaxComments, FALSE)}
LargeWorlds == {World(Descending(1..NumUsersSeq), NumPostsSeq, MaxCommentsSeq, TRUE)}

\* More users than the top five; who has the most posts varies with the shift.
TopWorlds ==
    {[World(Descending(1..NumUsersTop), NumPostsTop, 0, TRUE) EXCEPT !.shift = s] :
        s \in 0..(NumUsersTop - 1)}

\* What a response can be: the request fails (network, non-2xx), the body
\* lacks the field, or the body has it.
Outcomes == IF upstream.wellFormed THEN {"fail", "ok"} ELSE {"fail", "nofield", "ok"}

-----------------------------------------------------------------------------
(* The cache *)

InitCache ==
    [users |-> Null,
     userPosts |-> [u \in UserIds |-> Undefined],
     postComments |-> [p \in PostIds |-> Undefined],
     cachedPopularPosts |-> Null,
     cachedLatestPosts |-> Null,
     lastUpdated |->
        [users |-> 0,
         userPosts |-> [u \in UserIds |-> 0],   \* 0: no entry
         popularPosts |-> 0,
         latestPosts |-> 0]]

\* isCacheValid with the comparison turned round.
isCacheValidFlipped(c, key) ==
    /\ key \in DOMAIN c.lastUpdated
    /\ c.lastUpdated[key] # 0
    /\ now - c.lastUpdated[key] > CACHE_TTL

\* isCacheValid(key), evaluated on cache c at the current time.  A key that
\* lastUpdated does not have reads as undefined, which is falsy.
isCacheValid(c, key) ==
    /\ key \in DOMAIN c.lastUpdated
    /\ c.lastUpdated[key] # 0
    /\ now - c.lastUpdated[key] < CACHE_TTL

\* The template string `userPosts_${userId}`.
UserPostsKey(u) == "userPosts_" \o ToString(u)

\* Object.keys(users): integer-like keys come out in ascending numeric order.
ObjectKeys(users) == Ascending({users.v[i].id : i \in DOMAIN users.v})

\* users[id]
Lookup(users, id) ==
    IF \E i \in DOMAIN users.v : users.v[i].id = id
    THEN (users.v[CHOOSE i \in DOMAIN users.v : users.v[i].id = id]).name
    ELSE <<"undefined">>

\* x ? x.length : 0
LengthOrZero(x) == IF Truthy(x) THEN Len(x.v) ELSE 0

-----------------------------------------------------------------------------
(* A request slot: the handler's position and its local variables; `type`  *)
(* is req.query.type as the /posts route received it.  The                 *)
(* fields after `result` are history: the upstream requests the call has   *)
(* issued, the outcome of the response it received last, whether a posts   *)
(* or comments response lacked its field, whether its users request        *)
(* succeeded, and what had been stored when the call began.                *)

IdleCall ==
    [pc |-> "idle", query |-> "none", type |-> Null,
     users |-> Null, userIds |-> <<>>, idx |-> 0,
     userPostCounts |-> <<>>, allPosts |-> <<>>,
     targets |-> <<>>, pending |-> {}, resolved |-> <<>>,
     result |-> Null,
     reqs |-> {}, last |-> "none", malformed |-> FALSE, usersOk |-> FALSE,
     derivedFreshAtStart |-> FALSE, derivedAtStart |-> Null,
     usersFreshAtStart |-> FALSE]

InitHist ==
    [popularPosts |-> [at |-> 0, val |-> Null],
     latestPosts |-> [at |-> 0, val |-> Null],
     users |-> [at |-> 0, older |-> {}, overtook |-> FALSE],
     usersQueue |-> <<>>,
     userPosts |-> [u \in UserIds |-> [at |-> 0]],
     comments |-> [p \in PostIds |-> [stored |-> FALSE, first |-> 0, overwritten |-> FALSE]]]

\* The sequence q without x, and the members of q ahead of x.
Without(q, x) == SelectSeq(q, LAMBDA y : y # x)
Ahead(q, x) == {q[i] : i \in {j \in DOMAIN q : \E k \in DOMAIN q : j < k /\ q[k] = x}}

\* The users request of the call is no longer in flight.
Leave(m) ==
    [m EXCEPT !.h.usersQueue = Without(@, m.p), !.h.users.older = @ \ {m.p}]

\* Less than TTL has passed since the last successful store h.
WithinTTL(h) == h.at # 0 /\ now - h.at < CACHE_TTL

\* The handler stops with `result` (a value, or the error it throws).
Done(m, result) == [m EXCEPT !.l.pc = "done", !.l.result = result]

Issue(m, kind, key, fresh) ==
    [m EXCEPT !.l.reqs = @ \cup {[kind |-> kind, key |-> key, fresh |-> fresh]}]

\* post => ({...post, userName: users[post.userid]})
Enrich(users, post) ==
    [id |-> post.id, userid |-> post.userid, userName |-> Lookup(users, post.userid)]

\* post => ({...post, commentCount: 0})
WithCountZero(post, comments) ==
    [id |-> post.id, userid |-> post.userid, userName |-> post.userName,
     commentCount |-> 0]

\* post => ({...post, commentCount: comments ? comments.length : 0})
WithCount(post, comments) ==
    [id |-> post.id, userid |-> post.userid, userName |-> post.userName,
     commentCount |-> LengthOrZero(comments)]

\* The body of the loop `for (const userId of userIds)` once fetchUserPosts
\* has returned `posts`.
Accumulate(m, posts) ==
    LET l == m.l
        u == l.userIds[l.idx]
    IN  IF l.query = "top"
        THEN [m EXCEPT !.l.idx = @ + 1,
                       !.l.userPostCounts = Append(@,
                            [id |-> u, name |-> Lookup(l.users, u),
                             postCount |-> LengthOrZero(posts)])]
        ELSE [m EXCEPT !.l.idx = @ + 1,
                       !.l.allPosts = IF Truthy(posts)
                            THEN @ \o [i \in 1..Len(posts.v) |-> Enrich(l.users, posts.v[i])]
                            ELSE @]

\* getTopUsers without its sort.
TopUsersUnsorted(userPostCounts) == Slice(userPostCounts, TopN)

\* getTopUsers, after the loop.
TopUsersResult(userPostCounts) ==
    Slice(SortDesc(userPostCounts,
                   [i \in 1..Len(userPostCounts) |-> userPostCounts[i].postCount]),
          TopN)

\* getPopularPosts returning a single winner.
PopularPostsSingle(postsWithCommentCounts) ==
    Slice(SortDesc(postsWithCommentCounts,
                   [i \in 1..Len(postsWithCommentCounts) |->
                        postsWithCommentCounts[i].commentCount]), 1)

\* getPopularPosts, after Promise.all.
PopularPostsResult(postsWithCommentCounts) ==
    LET sorted == SortDesc(postsWithCommentCounts,
                           [i \in 1..Len(postsWithCommentCounts) |->
                                postsWithCommentCounts[i].commentCount])
        maxCommentCount == IF Len(sorted) > 0 THEN sorted[1].commentCount ELSE 0
        IsMax(post) == post.commentCount = maxCommentCount
    IN  SelectSeq(sorted, IsMax)

\* getLatestPosts without its sort.
LatestPostsUnsorted(allPosts) == Slice(allPosts, TopN)

\* getLatestPosts, between the loop and Promise.all.
LatestPostsTargets(allPosts) ==
    Slice(SortDesc(allPosts, [i \in 1..Len(allPosts) |-> allPosts[i].id]), TopN)

\* The store of a derived result without its timestamp.
StoreDerivedValueOnly(m, key, posts) ==
    IF key = "popularPosts"
    THEN [m EXCEPT !.c.cachedPopularPosts = Arr(posts),
                   !.h.popularPosts = [at |-> now, val |-> Arr(posts)]]
    ELSE [m EXCEPT !.c.cachedLatestPosts = Arr(posts),
                   !.h.latestPosts = [at |-> now, val |-> Arr(posts)]]

\* The store of a derived result into both derived slots.
StoreDerivedBoth(m, key, posts) ==
    [m EXCEPT !.c.cachedPopularPosts = Arr(posts),
              !.c.lastUpdated.popularPosts = now,
              !.h.popularPosts = [at |-> now, val |-> Arr(posts)],
              !.c.cachedLatestPosts = Arr(posts),
              !.c.lastUpdated.latestPosts = now,
              !.h.latestPosts = [at |-> now, val |-> Arr(posts)]]

\* The store of a derived result and its timestamp.
StoreDerived(m, key, posts) ==
    IF key = "popularPosts"
    THEN [m EXCEPT !.c.cachedPopularPosts = Arr(posts),
                   !.c.lastUpdated.popularPosts = now,
                   !.h.popularPosts = [at |-> now, val |-> Arr(posts)]]
    ELSE [m EXCEPT !.c.cachedLatestPosts = Arr(posts),
                   !.c.lastUpdated.latestPosts = now,
                   !.h.latestPosts = [at |-> now, val |-> Arr(posts)]]

\* Promise.all has resolved: every target has its comments.
Finish(m) ==
    LET l == m.l
        counted == [i \in 1..Len(l.targets) |->
                        WithCount(l.targets[i], l.resolved[l.targets[i].id])]
    IN  IF l.query = "popular"
        THEN LET popularPosts == PopularPostsResult(counted)
             IN  Done(StoreDerived(m, "popularPosts", popularPosts), Arr(popularPosts))
        ELSE Done(StoreDerived(m, "latestPosts", counted), Arr(counted))

\* fetchPostComments, up to its request: the cached comments, if truthy.
CommentsCached(c, p) == Truthy(c.postComments[p])

\* Promise.all(targets.map(async post => fetchPostComments(post.id) ...)): every
\* call runs up to its request before any response arrives.
FanOut(m, targets) ==
    LET ids == {targets[i].id : i \in DOMAIN targets}
        hit == {p \in ids : CommentsCached(m.c, p)}
        m1 == [m EXCEPT !.l.targets = targets,
                        !.l.resolved = [p \in hit |-> m.c.postComments[p]],
                        !.l.pending = ids \ hit,
                        !.l.reqs = @ \cup {[kind |-> "comments", key |-> p,
                                             fresh |-> m.h.comments[p].stored] :
                                            p \in ids \ hit}]
    IN  IF ids \ hit = {} THEN Finish(m1) ELSE [m1 EXCEPT !.l.pc = "awaitComments"]

\* getLatestPosts resolving the comments of every post.
AfterLoopResolveAll(m) ==
    CASE m.l.query = "top" -> Done(m, Arr(TopUsersResult(m.l.userPostCounts)))
      [] m.l.query = "popular" -> FanOut(m, m.l.allPosts)
      [] OTHER -> FanOut(m, SortDesc(m.l.allPosts,
                                     [i \in 1..Len(m.l.allPosts) |-> m.l.allPosts[i].id]))

\* What follows the loop over the users.
AfterLoop(m) ==
    CASE m.l.query = "top" -> Done(m, Arr(TopUsersResult(m.l.userPostCounts)))
      [] m.l.query = "popular" -> FanOut(m, m.l.allPosts)
      [] OTHER -> FanOut(m, LatestPostsTargets(m.l.allPosts))

\* fetchUserPosts, up to its request: the cached posts are returned when the
\* entry is truthy and isCacheValid(`userPosts_${userId}`).
UserPostsCached(c, u) == Truthy(c.userPosts[u]) /\ isCacheValid(c, UserPostsKey(u))

\* The loop over userIds from position idx: cached posts are taken at once,
\* the first user whose posts are not cached makes the handler wait.
RECURSIVE Loop(_)
Loop(m) ==
    IF m.l.idx > Len(m.l.userIds) THEN AfterLoop(m)
    ELSE LET u == m.l.userIds[m.l.idx]
         IN  IF UserPostsCached(m.c, u)
             THEN Loop(Accumulate(m, m.c.userPosts[u]))
             ELSE [Issue(m, "posts", u, WithinTTL(m.h.userPosts[u]))
                       EXCEPT !.l.pc = "awaitPosts"]

\* fetchAllUsers has returned `users`: Object.keys(users) throws a TypeError
\* unless users is an object.
AfterUsers(m, users) ==
    IF users.tag # "object" THEN Done(m, Err("TypeError"))
    ELSE Loop([m EXCEPT !.l.users = users, !.l.userIds = ObjectKeys(users), !.l.idx = 1])

\* fetchAllUsers waiting for a users request in flight instead of issuing one.
CallFetchAllUsersJoin(m) ==
    IF isCacheValid(m.c, "users") THEN AfterUsers(m, m.c.users)
    ELSE [m EXCEPT !.l.pc = "awaitUsers"]

\* fetchAllUsers, up to its request.
CallFetchAllUsers(m) ==
    IF isCacheValid(m.c, "users") THEN AfterUsers(m, m.c.users)
    ELSE [Issue(m, "users", 0, WithinTTL(m.h.users))
              EXCEPT !.l.pc = "awaitUsers", !.h.usersQueue = Append(@, m.p)]

\* The state a step works on, and its write-back.
M(p) == [c |-> cache, l |-> call[p], h |-> hist, p |-> p]

Commit(p, m) ==
    /\ cache' = m.c
    /\ call' = [call EXCEPT ![p] = m.l]
    /\ hist' = m.h
    /\ UNCHANGED <<now, upstream>>

\* A request arrives at a free slot.
Arrive(p) ==
    /\ call[p].pc = "idle"
    /\ calls # 0
    /\ calls' = IF calls = Unlimited THEN calls ELSE calls - 1

Begin(p, query, derivedHist) ==
    [M(p) EXCEPT !.l.query = query,
                 !.l.derivedFreshAtStart = WithinTTL(derivedHist),
                 !.l.derivedAtStart = derivedHist.val,
                 !.l.usersFreshAtStart = WithinTTL(hist.users)]

-----------------------------------------------------------------------------
(* The steps *)

\* GET /users arrives: getTopUsers runs up to its first request.
StartTopUsers(p) ==
    /\ Arrive(p)
    /\ Commit(p, CallFetchAllUsers(Begin(p, "top", [at |-> 0, val |-> Null])))

\* getPopularPosts, up to its first request.
GetPopularPosts(m) ==
    IF isCacheValid(m.c, "popularPosts") /\ Truthy(m.c.cachedPopularPosts)
    THEN Done(m, m.c.cachedPopularPosts)
    ELSE CallFetchAllUsers(m)

\* getLatestPosts, up to its first request.
GetLatestPosts(m) ==
    IF isCacheValid(m.c, "latestPosts") /\ Truthy(m.c.cachedLatestPosts)
    THEN Done(m, m.c.cachedLatestPosts)
    ELSE CallFetchAllUsers(m)

\* res.status(400).json({ error: 'Invalid type parameter' })
BadRequest == [tag |-> "status", v |-> <<"400">>]

\* req.query.type || 'popular'
QueryTypeDefaultPopular(raw) == IF Truthy(raw) THEN raw.v[1] ELSE "popular"

\* req.query.type || 'latest'
QueryType(raw) == IF Truthy(raw) THEN raw.v[1] ELSE "latest"

\* GET /posts arrives with req.query.type = raw (Undefined: no such parameter).
GetPosts(p, raw) ==
    /\ Arrive(p)
    /\ LET type == QueryType(raw)
           m == CASE type = "popular" ->
                        GetPopularPosts(Begin(p, "popular", hist.popularPosts))
                  [] type = "latest" ->
                        GetLatestPosts(Begin(p, "latest", hist.latestPosts))
                  [] OTHER -> Done(M(p), BadRequest)
       IN  Commit(p, [m EXCEPT !.l.type = raw])

\* GET /posts?type=popular arrives.
StartPopularPosts(p) == GetPosts(p, Str("popular"))

\* GET /posts?type=latest arrives.
StartLatestPosts(p) == GetPosts(p, Str("latest"))

\* GET /posts or GET /posts?type= arrives.
StartDefaultPosts(p) == \E raw \in {Undefined, Str("")} : GetPosts(p, raw)

\* GET /posts?type=trending arrives.
StartInvalidPosts(p) == GetPosts(p, Str("trending"))

\* fetchAllUsers dropping the response of a request older than the one whose
\* payload the slot holds.
UsersStoreNewestIssued(m, data) ==
    IF m.p \in m.h.users.older THEN Leave(m)
    ELSE [m EXCEPT !.c.users = data, !.c.lastUpdated.users = now,
                   !.h.users = [at |-> IF Truthy(data) THEN now ELSE @.at,
                                older |-> Ahead(m.h.usersQueue, m.p),
                                overtook |-> FALSE],
                   !.h.usersQueue = Without(@, m.p)]

\* fetchAllUsers after a response with a body: the slot is written, then read.
UsersStore(m, data) ==
    [m EXCEPT !.c.users = data, !.c.lastUpdated.users = now,
              !.h.users = [at |-> IF Truthy(data) THEN now ELSE @.at,
                           older |-> Ahead(m.h.usersQueue, m.p),
                           overtook |-> m.p \in @.older],
              !.h.usersQueue = Without(@, m.p)]

\* fetchAllUsers dropping the slot when axios.get rejects.
UsersCatchClearSlot(m) ==
    Done([m EXCEPT !.c.users = Null, !.c.lastUpdated.users = 0], Err("AxiosError"))

\* fetchAllUsers falling back on the stale users when axios.get rejects.
UsersCatchServeStale(m) ==
    IF Truthy(m.c.users) THEN AfterUsers(m, m.c.users) ELSE Done(m, Err("AxiosError"))

\* fetchAllUsers when axios.get rejects: the error is logged and rethrown.
UsersCatch(m) == Done(m, Err("AxiosError"))

\* The response to GET {base}/users arrives.
UsersResponse(p, o) ==
    /\ call[p].pc = "awaitUsers"
    /\ LET m == [M(p) EXCEPT !.l.last = o, !.l.usersOk = (o = "ok")]
           data == IF o = "ok" THEN UsersObject(upstream.users) ELSE Undefined
       IN  IF o = "fail" THEN Commit(p, UsersCatch(Leave(m)))
           ELSE LET m1 == UsersStore(m, data)
                IN  Commit(p, AfterUsers(m1, m1.c.users))
    /\ UNCHANGED calls

\* fetchUserPosts after a response with a body.
UserPostsStore(m, u, data) ==
    [m EXCEPT !.c.userPosts[u] = data, !.c.lastUpdated.userPosts[u] = now,
              !.h.userPosts[u] = IF Truthy(data) THEN [at |-> now] ELSE @]

\* fetchUserPosts answering a rejection with no posts for that user.
UserPostsCatchSkip(m) == Loop(Accumulate(m, Undefined))

\* fetchUserPosts when axios.get rejects.
UserPostsCatch(m) == Done(m, Err("AxiosError"))

\* The response to GET {base}/users/u/posts arrives.
PostsResponse(p, o) ==
    /\ call[p].pc = "awaitPosts"
    /\ LET u == call[p].userIds[call[p].idx]
           m == [M(p) EXCEPT !.l.last = o,
                             !.l.malformed = @ \/ o = "nofield"]
           data == IF o = "ok" THEN Arr(UserPostsBody(upstream, u)) ELSE Undefined
       IN  IF o = "fail" THEN Commit(p, UserPostsCatch(m))
           ELSE LET m1 == UserPostsStore(m, u, data)
                IN  Commit(p, Loop(Accumulate(m1, m1.c.userPosts[u])))
    /\ UNCHANGED calls

\* fetchPostComments after a response with a body.
CommentsStore(m, post, data) ==
    [m EXCEPT !.c.postComments[post] = data,
              !.h.comments[post] =
                    [stored |-> @.stored \/ Truthy(data),
                     first |-> IF ~@.stored /\ Truthy(data) THEN Len(data.v) ELSE @.first,
                     overwritten |-> @.overwritten \/ @.stored]]

\* The response to GET {base}/posts/post/comments arrives, with n comments
\* when it has the field.  A rejection rejects Promise.all at once; the
\* requests still in flight complete later and store what they get.
CommentsResponse(p, post, o, n) ==
    /\ post \in call[p].pending
    /\ LET waiting == call[p].pc = "awaitComments"
           m == [M(p) EXCEPT !.l.pending = @ \ {post},
                             !.l.last = IF waiting THEN o ELSE @,
                             !.l.malformed = @ \/ (waiting /\ o = "nofield")]
           data == IF o = "ok" THEN Arr(CommentsOf(post, n)) ELSE Undefined
       IN  IF o = "fail"
           THEN Commit(p, IF waiting THEN Done(m, Err("AxiosError")) ELSE m)
           ELSE LET m1 == CommentsStore(m, post, data)
                    m2 == [m1 EXCEPT !.l.resolved = (post :> m1.c.postComments[post]) @@ @]
                IN  IF ~waiting THEN Commit(p, m1)
                    ELSE IF m2.l.pending = {} THEN Commit(p, Finish(m2))
                    ELSE Commit(p, m2)
    /\ UNCHANGED calls

\* The HTTP response is sent; the slot is free once nothing of the call is
\* in flight any more.
Respond(p) ==
    /\ call[p].pc = "done"
    /\ call[p].pending = {}
    /\ call' = [call EXCEPT ![p] = IdleCall]
    /\ UNCHANGED <<now, cache, upstream, hist, calls>>

\* Time passes.
Tick ==
    /\ now + TickMs <= MaxTime
    /\ now' = now + TickMs
    /\ UNCHANGED <<cache, call, upstream, hist, calls>>

-----------------------------------------------------------------------------
(* Specifications *)

InitCommon ==
    /\ now = TickMs
    /\ cache = InitCache
    /\ call = [p \in Procs |-> IdleCall]
    /\ hist = InitHist

Step(p) ==
    \/ StartTopUsers(p)
    \/ StartPopularPosts(p)
    \/ StartLatestPosts(p)
    \/ \E o \in Outcomes : UsersResponse(p, o)
    \/ \E o \in Outcomes : PostsResponse(p, o)
    \/ Respond(p)

\* Concurrent requests on the small data set, with time passing; the
\* responses of a fan-out arrive in any order.
Init == InitCommon /\ upstream \in SmallWorlds /\ calls = MaxCalls

Next ==
    \/ \E p \in Procs : Step(p)
    \/ \E p \in Procs, post \in PostIds, o \in Outcomes, n \in 0..upstream.maxComments :
            CommentsResponse(p, post, o, n)
    \/ Tick

Spec == Init /\ [][Next]_vars

\* Requests one at a time on the large data set, within one TTL window; the
\* responses of a fan-out arrive in the order of the post identifiers.
InitSeq == InitCommon /\ upstream \in LargeWorlds /\ calls = Unlimited

NextSeq ==
    \/ Step(1)
    \/ \E post \in PostIds, o \in Outcomes, n \in 0..upstream.maxComments :
            /\ \A other \in call[1].pending : post <= other
            /\ CommentsResponse(1, post, o, n)

SpecSeq == InitSeq /\ [][NextSeq]_vars

\* A burst of concurrent requests on the small data set, within one TTL window.
InitBurst == InitCommon /\ upstream \in SmallWorlds /\ calls = MaxCallsBurst

NextBurst ==
    \/ \E p \in Procs : Step(p)
    \/ \E p \in Procs, post \in PostIds, o \in Outcomes, n \in 0..upstream.maxComments :
            CommentsResponse(p, post, o, n)

SpecBurst == InitBurst /\ [][NextBurst]_vars

\* Requests one at a time, every route and every kind of `type`, on the data
\* sets with more users than the top five, within one TTL window.
InitRoutes == InitCommon /\ upstream \in TopWorlds /\ calls = Unlimited

NextRoutes ==
    \/ NextSeq
    \/ StartDefaultPosts(1)
    \/ StartInvalidPosts(1)

SpecRoutes == InitRoutes /\ [][NextRoutes]_vars

-----------------------------------------------------------------------------
(* Properties *)

\* The call in slot p has recomputed its result and returned it.
Recomputed(p, query) ==
    /\ call[p].pc = "done"
    /\ call[p].query = query
    /\ call[p].users.tag = "object"
    /\ ~IsError(call[p].result)

\* C1: a PopularPosts or LatestPosts call that starts less than TTL after the
\* last store of its slot returns the stored result and has issued no upstream
\* request, whatever the upstream would answer.
C1_ShortCircuit ==
    \A p \in Procs :
        (call[p].query \in {"popular", "latest"} /\ call[p].derivedFreshAtStart) =>
            /\ call[p].pc = "done"
            /\ call[p].result = call[p].derivedAtStart
            /\ call[p].reqs = {}

\* A PopularPosts call was served from its slot while the users slot was stale.
C1_Witness ==
    \E p \in Procs :
        /\ call[p].query = "popular"
        /\ call[p].derivedFreshAtStart
        /\ ~call[p].usersFreshAtStart
        /\ call[p].pc = "done"
        /\ Truthy(call[p].result)

\* C2: no upstream posts request for user u is issued less than TTL after a
\* fetchUserPosts(u) has succeeded.
C2_PostsReadThrough ==
    \A p \in Procs : \A r \in call[p].reqs : r.kind = "posts" => ~r.fresh

\* C3: for every TTL-governed slot that holds a value, the read path judges the
\* slot fresh exactly when the slot has a recorded timestamp t and now - t < TTL.
C3_FreshIffTimestamp ==
    LET Recent(t) == t # 0 /\ now - t < CACHE_TTL
    IN  /\ Truthy(cache.users) =>
            (isCacheValid(cache, "users") <=> Recent(cache.lastUpdated.users))
        /\ \A u \in UserIds : Truthy(cache.userPosts[u]) =>
            (UserPostsCached(cache, u) <=> Recent(cache.lastUpdated.userPosts[u]))
        /\ Truthy(cache.cachedPopularPosts) =>
            (isCacheValid(cache, "popularPosts") <=> Recent(cache.lastUpdated.popularPosts))
        /\ Truthy(cache.cachedLatestPosts) =>
            (isCacheValid(cache, "latestPosts") <=> Recent(cache.lastUpdated.latestPosts))

\* C4: when the upstream request that refreshes the users slot or a
\* userPosts[u] slot fails, the call ends with the error and the step leaves
\* the slot's value and timestamp as they were.
C4_FailedRefreshKeepsSlot ==
    [][\A p \in Procs :
        (/\ call[p].pc \in {"awaitUsers", "awaitPosts"}
         /\ call'[p] # call[p]
         /\ call'[p].last = "fail") =>
            /\ call'[p].pc = "done"
            /\ IsError(call'[p].result)
            /\ call[p].pc = "awaitUsers" =>
                /\ cache'.users = cache.users
                /\ cache'.lastUpdated.users = cache.lastUpdated.users
            /\ call[p].pc = "awaitPosts" =>
                LET u == call[p].userIds[call[p].idx]
                IN  /\ cache'.userPosts[u] = cache.userPosts[u]
                    /\ cache'.lastUpdated.userPosts[u] = cache.lastUpdated.userPosts[u]]_vars

\* A users refresh has failed while the slot held a stale value: the call
\* ended with the error.
C4_Witness ==
    \E p \in Procs :
        /\ call[p].pc = "done"
        /\ call[p].last = "fail"
        /\ \A r \in call[p].reqs : r.kind = "users"
        /\ call[p].reqs # {}
        /\ Truthy(cache.users)
        /\ ~isCacheValid(cache, "users")
        /\ IsError(call[p].result)

\* C5 as stated: a query that starts while the users slot is empty or stale,
\* and whose users request (if it makes one) does not succeed, fails.
C5_AllQueriesFail ==
    \A p \in Procs :
        (/\ call[p].pc = "done"
         /\ ~call[p].usersFreshAtStart
         /\ ~call[p].usersOk) => IsError(call[p].result)

\* C5 as amended: such a query fails unless it is a PopularPosts or LatestPosts
\* call whose own slot was stored less than TTL before.
C5_FailUnlessDerivedFresh ==
    \A p \in Procs :
        (/\ call[p].pc = "done"
         /\ ~call[p].usersFreshAtStart
         /\ ~call[p].usersOk
         /\ ~(call[p].query \in {"popular", "latest"} /\ call[p].derivedFreshAtStart))
            => IsError(call[p].result)

\* A PopularPosts call failed on its users request although a stale result was
\* in its slot.
C5_Witness ==
    \E p \in Procs :
        /\ call[p].pc = "done"
        /\ call[p].query = "popular"
        /\ ~call[p].usersFreshAtStart
        /\ ~call[p].derivedFreshAtStart
        /\ Truthy(call[p].derivedAtStart)
        /\ call[p].last = "fail"
        /\ IsError(call[p].result)

\* C6: a users response without the `users` field makes the call fail and
\* leaves the users slot's value and timestamp as they were.
C6_MalformedUsersKeepsSlot ==
    [][\A p \in Procs :
        (/\ call[p].pc = "awaitUsers"
         /\ call'[p] # call[p]
         /\ call'[p].last = "nofield") =>
            /\ IsError(call'[p].result)
            /\ cache'.users = cache.users
            /\ cache'.lastUpdated.users = cache.lastUpdated.users]_vars

\* C7: a call that has received a posts or comments response without its field
\* does not return a result.
C7_MalformedFails ==
    \A p \in Procs :
        (call[p].pc = "done" /\ call[p].malformed) => IsError(call[p].result)

\* The posts a call has gathered, each with the length of its resolved comments.
Counted(p) ==
    [i \in 1..Len(call[p].allPosts) |->
        [id |-> call[p].allPosts[i].id, userid |-> call[p].allPosts[i].userid,
         userName |-> call[p].allPosts[i].userName,
         commentCount |-> Len(call[p].resolved[call[p].allPosts[i].id].v)]]

C9_LatestTopFive ==
    \A p \in Procs : Recomputed(p, "latest") =>
        LET all == call[p].allPosts
            r == call[p].result.v
            returned == {r[i].id : i \in 1..Len(r)}
        IN  /\ Len(r) = Min(TopN, Len(all))
            /\ \A i, j \in 1..Len(r) : i < j => r[i].id > r[j].id
            /\ returned \subseteq {all[i].id : i \in 1..Len(all)}
            /\ \A i \in 1..Len(all) : all[i].id \notin returned =>
                    \A q \in returned : all[i].id < q
            /\ \A i \in 1..Len(r) :
                    r[i].commentCount = Len(call[p].resolved[r[i].id].v)

\* A LatestPosts recompute over more than five posts returned five, one of them
\* with comments.
C9_Witness ==
    \E p \in Procs :
        /\ Recomputed(p, "latest")
        /\ Len(call[p].allPosts) > TopN
        /\ Len(call[p].result.v) = TopN
        /\ \E i \in 1..TopN : call[p].result.v[i].commentCount > 0

\* C10: a LatestPosts call issues upstream comments requests only for posts
\* among the five largest identifiers it gathered, and when it returns, only
\* for posts of its result.
C10_CommentsAfterTruncation ==
    \A p \in Procs : call[p].query = "latest" =>
        \A r \in call[p].reqs : r.kind = "comments" =>
            /\ Cardinality({i \in 1..Len(call[p].allPosts) :
                                call[p].allPosts[i].id > r.key}) < TopN
            /\ Recomputed(p, "latest") =>
                    \E i \in 1..Len(call[p].result.v) : call[p].result.v[i].id = r.key

\* A LatestPosts recompute over more than five posts has requested the comments
\* of five posts.
C10_Witness ==
    \E p \in Procs :
        /\ Recomputed(p, "latest")
        /\ Len(call[p].allPosts) > TopN
        /\ Cardinality({r \in call[p].reqs : r.kind = "comments"}) = TopN

\* The users the upstream lists, and the place of user u in its listing.
Listed == {upstream.users[i] : i \in DOMAIN upstream.users}
ListingPos(u) == CHOOSE i \in DOMAIN upstream.users : upstream.users[i] = u

\* The number of posts fetchUserPosts resolved for user u.
ResolvedPostCount(u) == Len(cache.userPosts[u].v)

\* C11: a TopUsers result has min(5, number of users) entries {id, name,
\* postCount}, one per distinct user, each postCount the length of that user's
\* resolved posts, by descending postCount, and no user left out has more posts
\* than a user returned.
C11_TopUsers ==
    \A p \in Procs :
        Recomputed(p, "top") =>
            LET r == call[p].result.v
                returned == {r[i].id : i \in DOMAIN r}
            IN  /\ Len(r) = Min(TopN, Cardinality(Listed))
                /\ \A i \in DOMAIN r :
                        /\ r[i].id \in Listed
                        /\ r[i].name = NameOf(r[i].id)
                        /\ r[i].postCount = ResolvedPostCount(r[i].id)
                /\ \A i, j \in DOMAIN r : i < j =>
                        /\ r[i].id # r[j].id
                        /\ r[i].postCount >= r[j].postCount
                /\ \A u \in Listed \ returned, i \in DOMAIN r :
                        ResolvedPostCount(u) <= r[i].postCount

\* A TopUsers result that left a user out and that the sort had to reorder.
C11_Witness ==
    \E p \in Procs :
        /\ Recomputed(p, "top")
        /\ Cardinality(Listed) > TopN
        /\ Len(call[p].result.v) = TopN
        /\ call[p].result.v[1].id > call[p].result.v[TopN].id
        /\ call[p].result.v[1].postCount > call[p].result.v[TopN].postCount

\* C12 as stated: in a TopUsers result, users with the same postCount stand in
\* the order in which the upstream lists them.
C12_TiesInListingOrder ==
    \A p \in Procs :
        Recomputed(p, "top") =>
            LET r == call[p].result.v
            IN  \A i, j \in DOMAIN r :
                    (i < j /\ r[i].postCount = r[j].postCount) =>
                        ListingPos(r[i].id) < ListingPos(r[j].id)

\* C12, amended: in a TopUsers result, users with the same postCount stand in
\* the order of Object.keys(users), which for integer-like identifiers is the
\* ascending numeric order, whatever the order of the upstream's listing.
C12_TiesInKeyOrder ==
    \A p \in Procs :
        Recomputed(p, "top") =>
            LET r == call[p].result.v
            IN  \A i, j \in DOMAIN r :
                    (i < j /\ r[i].postCount = r[j].postCount) => r[i].id < r[j].id

\* A TopUsers result with two users of the same postCount that the upstream
\* lists the other way round.
C12_Witness ==
    \E p \in Procs :
        /\ Recomputed(p, "top")
        /\ \E i, j \in DOMAIN call[p].result.v :
                /\ i < j
                /\ call[p].result.v[i].postCount = call[p].result.v[j].postCount
                /\ ListingPos(call[p].result.v[i].id) > ListingPos(call[p].result.v[j].id)

\* C13 as stated: every `type` other than absent, popular and latest is
\* answered with 400.
C13_OtherTypesRejected ==
    \A p \in Procs :
        call[p].type \notin {Null, Undefined, Str("popular"), Str("latest")} =>
            call[p].result = BadRequest

\* C13, amended: GET /posts with `type` absent or empty takes the step that
\* type=latest takes; popular and latest run their query; every other `type`
\* is answered with 400 in a step that issues no upstream request and leaves
\* the cache as it was.
C13_TypeDispatch ==
    [][\A p \in Procs :
        (call[p].pc = "idle" /\ call'[p].pc # "idle" /\ call'[p].type # Null) =>
            LET raw == call'[p].type
                asLatest == GetLatestPosts(Begin(p, "latest", hist.latestPosts))
            IN  /\ raw \in {Undefined, Str("")} =>
                    /\ cache' = asLatest.c
                    /\ call'[p] = [asLatest.l EXCEPT !.type = raw]
                /\ raw = Str("popular") => call'[p].query = "popular"
                /\ raw = Str("latest") => call'[p].query = "latest"
                /\ raw \notin {Undefined, Str(""), Str("popular"), Str("latest")} =>
                    /\ call'[p].pc = "done"
                    /\ call'[p].result = BadRequest
                    /\ call'[p].reqs = {}
                    /\ call'[p].query = "none"
                    /\ cache' = cache
                    /\ hist' = hist]_vars

\* A request with an unknown `type` was answered with 400 while the cache held
\* users, posts and a latest result.
C13_Witness ==
    \E p \in Procs :
        /\ call[p].type = Str("trending")
        /\ call[p].result = BadRequest
        /\ Truthy(cache.users)
        /\ Truthy(cache.cachedLatestPosts)

\* The value and the timestamp of the derived slot of a query.
DerivedSlot(c, query) ==
    IF query = "popular"
    THEN <<c.cachedPopularPosts, c.lastUpdated.popularPosts>>
    ELSE <<c.cachedLatestPosts, c.lastUpdated.latestPosts>>

Awaiting == {"awaitUsers", "awaitPosts", "awaitComments"}

\* C14: when a request that a PopularPosts or LatestPosts recompute waits for
\* fails (users, a user's posts, a post's comments), the call ends with an
\* error in that step, which leaves the derived slot's value and timestamp as
\* they were; and nothing the ended call still has in flight writes the slot.
C14_FailedRecomputeKeepsDerived ==
    [][\A p \in Procs :
        call[p].query \in {"popular", "latest"} =>
            /\ (call[p].pc \in Awaiting /\ call'[p].last = "fail") =>
                    /\ call'[p].pc = "done"
                    /\ IsError(call'[p].result)
                    /\ DerivedSlot(cache', call[p].query) = DerivedSlot(cache, call[p].query)
            /\ (call[p].pc = "done" /\ call'[p].pc = "done" /\ call'[p] # call[p]) =>
                    DerivedSlot(cache', call[p].query) = DerivedSlot(cache, call[p].query)]_vars

\* A PopularPosts recompute failed after it had the users, and the slot still
\* holds the stale result stored before the call.
C14_Witness ==
    \E p \in Procs :
        /\ call[p].query = "popular"
        /\ call[p].pc = "done"
        /\ IsError(call[p].result)
        /\ call[p].last = "fail"
        /\ call[p].users.tag = "object"
        /\ ~call[p].derivedFreshAtStart
        /\ Truthy(cache.cachedPopularPosts)
        /\ cache.cachedPopularPosts = call[p].derivedAtStart

\* C15: once a comments list has been stored for a post, no fetchPostComments
\* for that post that starts afterwards issues an upstream comments request.
C15_NoRefetchOnceStored ==
    \A p \in Procs :
        \A r \in call[p].reqs : r.kind = "comments" => ~r.fresh

\* The upstream responses the call in slot p has yet to receive.
InFlight(p) ==
    (IF call[p].pc = "awaitUsers" THEN {[kind |-> "users", key |-> 0]} ELSE {})
    \cup (IF call[p].pc = "awaitPosts"
          THEN {[kind |-> "posts", key |-> call[p].userIds[call[p].idx]]} ELSE {})
    \cup {[kind |-> "comments", key |-> post] : post \in call[p].pending}

\* The call in slot p has its own request in flight for everything it waits for.
OwnRequests(p) ==
    \A k \in InFlight(p) :
        \E r \in call[p].reqs : r.kind = k.kind /\ r.key = k.key

UsersKey == [kind |-> "users", key |-> 0]

\* C16: there is no single-flight: a call that finds the users slot empty or
\* stale while another call's users request is in flight issues a users
\* request of its own, and every call that waits for the response for a key
\* (users, a user's posts, a post's comments) has issued its own request for it.
C16_NoSingleFlight ==
    [][\A p \in Procs :
        /\ OwnRequests(p)'
        /\ \A q \in Procs \ {p} :
            (/\ UsersKey \in InFlight(q)
             /\ call[p].pc = "idle"
             /\ call'[p].query \in {"top", "popular", "latest"}
             /\ call'[p].query # "top" => ~call'[p].derivedFreshAtStart
             /\ ~isCacheValid(cache, "users")) =>
                /\ UsersKey \in InFlight(p)'
                /\ UsersKey \in InFlight(q)'
                /\ \E r \in call'[p].reqs : r.kind = "users"]_vars

\* Two calls each have their own request for the same key in flight at once.
C16_Witness ==
    \E p, q \in Procs :
        /\ p # q
        /\ InFlight(p) \cap InFlight(q) # {}
        /\ OwnRequests(p)
        /\ OwnRequests(q)

\* The call in slot p returns a recomputed result of `query` in this step.
Returns(p, query) ==
    /\ call[p].pc # "done"
    /\ call'[p].pc = "done"
    /\ call'[p].query = query
    /\ ~IsError(call'[p].result)

\* C17: a slot's value and its timestamp are written in one step: whenever a
\* step changes the value or the timestamp of a slot, the state after it, which
\* is the first one any other call can observe, has the timestamp of that step
\* and the value that step wrote (for users the body of the response received,
\* for a derived slot the result the storing call returns).
C17_AtomicStore ==
    [][/\ (cache'.users # cache.users \/ cache'.lastUpdated.users # cache.lastUpdated.users) =>
            /\ cache'.lastUpdated.users = now'
            /\ \E p \in Procs :
                    /\ call[p].pc = "awaitUsers"
                    /\ call'[p].last \in {"ok", "nofield"}
                    /\ cache'.users = IF call'[p].last = "ok"
                                      THEN UsersObject(upstream.users) ELSE Undefined
      /\ \A u \in UserIds :
            (\/ cache'.userPosts[u] # cache.userPosts[u]
             \/ cache'.lastUpdated.userPosts[u] # cache.lastUpdated.userPosts[u]) =>
                /\ cache'.lastUpdated.userPosts[u] = now'
                /\ \E p \in Procs :
                        /\ call[p].pc = "awaitPosts"
                        /\ call[p].userIds[call[p].idx] = u
                        /\ call'[p].last \in {"ok", "nofield"}
                        /\ cache'.userPosts[u] = IF call'[p].last = "ok"
                                                 THEN Arr(UserPostsBody(upstream, u))
                                                 ELSE Undefined
      /\ \A query \in {"popular", "latest"} :
            DerivedSlot(cache', query) # DerivedSlot(cache, query) =>
                \E p \in Procs :
                    /\ Returns(p, query)
                    /\ DerivedSlot(cache', query) = <<call'[p].result, now'>>]_vars

\* A recomputed PopularPosts result and its timestamp were stored while
\* another call was waiting for an upstream response.
C17_Witness ==
    \E p, q \in Procs :
        /\ p # q
        /\ call[q].pc \in Awaiting
        /\ Recomputed(p, "popular")
        /\ ~call[p].derivedFreshAtStart
        /\ DerivedSlot(cache, "popular") = <<call[p].result, now>>

\* The users slot, and the posts slot of user u: value and timestamp.
UsersSlot(c) == <<c.users, c.lastUpdated.users>>
UserPostsSlot(c, u) == <<c.userPosts[u], c.lastUpdated.userPosts[u]>>

\* C18: the slots are independent.  A TopUsers call never writes popularPosts,
\* latestPosts or postComments; a PopularPosts call never writes latestPosts
\* and a LatestPosts call never writes popularPosts; the step in which a
\* request a call waits for fails leaves the whole cache unchanged; a posts
\* response for user u changes only userPosts[u] among the users and posts
\* slots, and a comments response for a post changes no other post's comments
\* and no users or posts slot.
C18_SlotsIndependent ==
    [][\A p \in Procs :
        call'[p] # call[p] =>
            LET query == IF call[p].pc = "idle" THEN call'[p].query ELSE call[p].query
            IN  /\ query = "top" =>
                    /\ DerivedSlot(cache', "popular") = DerivedSlot(cache, "popular")
                    /\ DerivedSlot(cache', "latest") = DerivedSlot(cache, "latest")
                    /\ cache'.postComments = cache.postComments
                /\ query = "popular" =>
                    DerivedSlot(cache', "latest") = DerivedSlot(cache, "latest")
                /\ query = "latest" =>
                    DerivedSlot(cache', "popular") = DerivedSlot(cache, "popular")
                /\ (call[p].pc \in Awaiting /\ call'[p].last = "fail") => cache' = cache
                /\ call[p].pc = "awaitUsers" =>
                    /\ \A u \in UserIds : UserPostsSlot(cache', u) = UserPostsSlot(cache, u)
                    /\ cache'.postComments = cache.postComments
                /\ call[p].pc = "awaitPosts" =>
                    /\ UsersSlot(cache') = UsersSlot(cache)
                    /\ \A u \in UserIds \ {call[p].userIds[call[p].idx]} :
                            UserPostsSlot(cache', u) = UserPostsSlot(cache, u)
                    /\ cache'.postComments = cache.postComments
                /\ call'[p].pending # call[p].pending /\ call[p].pc # "awaitPosts" =>
                    /\ UsersSlot(cache') = UsersSlot(cache)
                    /\ \A u \in UserIds : UserPostsSlot(cache', u) = UserPostsSlot(cache, u)
                    /\ \A post \in PostIds \ (call[p].pending \ call'[p].pending) :
                            cache'.postComments[post] = cache.postComments[post]]_vars

\* A LatestPosts call recomputed and stored its result while the popularPosts
\* slot kept the older result and timestamp it held.
C18_Witness ==
    \E p \in Procs :
        /\ Recomputed(p, "latest")
        /\ ~call[p].derivedFreshAtStart
        /\ Truthy(cache.cachedPopularPosts)
        /\ cache.lastUpdated.popularPosts < cache.lastUpdated.latestPosts
        /\ cache.lastUpdated.latestPosts = now

\* C19 as stated: every commentCount reported for a post in a recomputed
\* PopularPosts or LatestPosts result is the length of the first comments list
\* stored for that post (here for the calls all of whose responses had their
\* field).
C19_SameCommentCount ==
    \A p \in Procs :
        \A query \in {"popular", "latest"} :
            (Recomputed(p, query) /\ ~call[p].malformed) =>
                \A i \in DOMAIN call[p].result.v :
                    LET e == call[p].result.v[i]
                    IN  /\ hist.comments[e.id].stored
                        /\ e.commentCount = hist.comments[e.id].first

\* C19, amended: the commentCount a recomputed result reports for a post is the
\* length of the first comments list stored for that post as long as no later
\* comments response for the post has overwritten the slot, and 0 when the
\* response the call resolved lacked its field.
C19_CountOfFirstListUnlessOverwritten ==
    \A p \in Procs :
        \A query \in {"popular", "latest"} :
            Recomputed(p, query) =>
                \A i \in DOMAIN call[p].result.v :
                    LET e == call[p].result.v[i]
                        comments == call[p].resolved[e.id]
                    IN  /\ (Truthy(comments) /\ ~hist.comments[e.id].overwritten) =>
                                e.commentCount = hist.comments[e.id].first
                        /\ ~Truthy(comments) => e.commentCount = 0

\* A LatestPosts call reported one comment for a post from the list another
\* call had stored, without a comments request of its own.
C19_Witness ==
    \E p \in Procs :
        /\ Recomputed(p, "latest")
        /\ \A r \in call[p].reqs : r.kind # "comments"
        /\ Len(call[p].result.v) > 0
        /\ call[p].result.v[1].commentCount = 1
        /\ hist.comments[call[p].result.v[1].id].first = 1
        /\ ~hist.comments[call[p].result.v[1].id].overwritten

\* C20 as stated: the users slot never receives the payload of an upstream
\* request issued earlier than the request whose payload it held before.
C20_NeverOlderRequest == ~hist.users.overtook

\* C20, amended: the timestamp of a slot never decreases, and every users
\* response with a body is stored when it arrives, with the time of its
\* arrival, also when its request was issued earlier than the request whose
\* payload the slot holds: the slot holds the payload of the response that
\* arrived last.
C20_LastResponseWins ==
    [][/\ cache'.lastUpdated.users >= cache.lastUpdated.users
       /\ cache'.lastUpdated.popularPosts >= cache.lastUpdated.popularPosts
       /\ cache'.lastUpdated.latestPosts >= cache.lastUpdated.latestPosts
       /\ \A u \in UserIds :
            cache'.lastUpdated.userPosts[u] >= cache.lastUpdated.userPosts[u]
       /\ \A p \in Procs :
            (call[p].pc = "awaitUsers" /\ call'[p].last \in {"ok", "nofield"}) =>
                /\ UsersSlot(cache') =
                        <<IF call'[p].last = "ok"
                          THEN UsersObject(upstream.users) ELSE Undefined, now'>>
                /\ hist'.users.overtook = (p \in hist.users.older)]_vars

\* The users slot holds, with the current time, the payload of a request that
\* was issued before the request whose payload it held until then.
C20_Witness ==
    /\ hist.users.overtook
    /\ Truthy(cache.users)
    /\ cache.lastUpdated.users = now

TypeOK ==
    /\ now \in Nat
    /\ \A p \in Procs : call[p].pc \in {"idle", "awaitUsers", "awaitPosts", "awaitComments", "done"}

====
